---- MODULE Spec2Model ----
(***************************************************************************)
(* A model of package reger (jgbaldwinbrown/reger): a Reger wraps an       *)
(* io.RuneReader, mirrors every rune the regexp engine pulls through it    *)
(* into a byte buffer, and layers the find operations of regexp.Regexp on  *)
(* the engine's FindReaderIndex / FindReaderSubmatchIndex.                 *)
(*                                                                         *)
(* The engine is Go's regexp NFA machine run over an io.RuneReader; it is  *)
(* modelled step for step (its one-rune look-ahead and its reads past the  *)
(* end of a match decide how much of the stream every call consumes).      *)
(* Patterns here use literals, alternation, star and capture groups only,  *)
(* so the engine's empty-width flags are not modelled.                     *)
(***************************************************************************)
EXTENDS Integers, Sequences, FiniteSets, TLC

\* ---------------------------------------------------------------- bounds
\* Longest input, in bytes.
MaxLen == 4
\* Longest result list a find-all loop may build before the model stops it.
MaxOut == 6

\* ------------------------------------------------------------- the state
VARIABLES
    input,   \* the bytes both wrapped sources hold
    re,      \* the compiled pattern every call is given
    x,       \* a Reger over a source that ends with io.EOF, and its caller
    y        \* a Reger over a source that ends with an I/O error, and its caller

vars == <<input, re, x, y>>

\* ------------------------------------------------------------ UTF-8, runes
RuneError == 65533
endOfText == -1

\* The bytes inputs are made of: 'a', and the two bytes of U+00E9; either of
\* the two alone is an invalid encoding.
InputBytes == {97, 195, 169}

Inputs == UNION {[1..n -> InputBytes] : n \in 0..MaxLen}

\* utf8.AppendRune(p, r) for r in the basic multilingual plane.
AppendRune(p, r) ==
    IF r < 0 \/ r > 65535 \/ (r >= 55296 /\ r <= 57343)
    THEN p \o <<239, 191, 189>>
    ELSE IF r < 128 THEN Append(p, r)
    ELSE IF r < 2048 THEN p \o <<192 + (r \div 64), 128 + (r % 64)>>
    ELSE p \o <<224 + (r \div 4096), 128 + ((r \div 64) % 64), 128 + (r % 64)>>

\* utf8.DecodeRune on b[off:], off < len(b), for one- and two-byte encodings
\* (InputBytes holds no lead byte of a longer one).
DecodeRune(b, off) ==
    LET b0 == b[off + 1] IN
    IF b0 < 128 THEN [r |-> b0, size |-> 1]
    ELSE IF b0 >= 194 /\ b0 <= 223 /\ off + 1 < Len(b)
            /\ b[off + 2] >= 128 /\ b[off + 2] <= 191
    THEN [r |-> (b0 - 192) * 64 + (b[off + 2] - 128), size |-> 2]
    ELSE [r |-> RuneError, size |-> 1]

\* --------------------------------------------------- the wrapped source
\* x.r.ReadRune() of a strings.Reader / bufio.Reader over `input`, the source
\* holding a rune d at w.off.
SrcGot(w, d) ==
    [w |-> [w EXCEPT !.off = @ + d.size], r |-> d.r, size |-> d.size, err |-> "nil"]

\* x.r.ReadRune(): the next rune and its size in the source, or the source's
\* failure (w.tail) once its bytes are used up.
SrcReadRune(w) ==
    IF w.off >= Len(input)
    THEN [w |-> w, r |-> 0, size |-> 0, err |-> w.tail]
    ELSE SrcGot(w, DecodeRune(input, w.off))

\* What the source handed to the Reger, logged: the runes in order
\* (w.pulled), and the error of its last read (w.srcerr).
Logged(s) ==
    IF s.err = "nil"
    THEN [s EXCEPT !.w = [s.w EXCEPT !.pulled = Append(@, s.r), !.srcerr = "nil"]]
    ELSE [s EXCEPT !.w = [s.w EXCEPT !.srcerr = s.err]]

\* The call x.r.ReadRune() made by the Reger.
WrappedReadRune(w) == Logged(SrcReadRune(w))

\* A ReadRune that appends byte(r) in place of the encoding of r.
ReadRuneGotByte(s) ==
    IF s.err # "nil"
    THEN [w |-> s.w, r |-> 0, size |-> 0, err |-> "nil"]
    ELSE [w |-> [s.w EXCEPT !.buf = Append(@, s.r % 256), !.alloc = TRUE],
          r |-> s.r, size |-> s.size, err |-> "nil"]

\* A ReadRune that returns early on io.EOF only, and on any other error goes
\* on to append the zero rune it was handed.
ReadRuneGotEOF(s) ==
    IF s.err = "EOF"
    THEN [w |-> s.w, r |-> 0, size |-> 0, err |-> "nil"]
    ELSE [w |-> [s.w EXCEPT !.buf = AppendRune(@, s.r), !.alloc = TRUE],
          r |-> s.r, size |-> s.size, err |-> "nil"]

\* ------------------------------------------------------------ the Reger
\* The body of ReadRune after r, size, err = x.r.ReadRune().
ReadRuneGot(s) ==
    IF s.err # "nil"
    THEN [w |-> s.w, r |-> 0, size |-> 0, err |-> "nil"]
    ELSE [w |-> [s.w EXCEPT !.buf = AppendRune(@, s.r), !.alloc = TRUE],
          r |-> s.r, size |-> s.size, err |-> "nil"]

\* func (x *Reger) ReadRune() (r rune, size int, err error)
ReadRune(w) == ReadRuneGot(WrappedReadRune(w))

\* func (r *Reger) Bytes() []byte
Bytes(w) == w.buf

\* func (r *Reger) ResetBuffer()
ResetBuffer(w) == [w EXCEPT !.buf = <<>>]

\* ----------------------------------------------------------- the engine
Inst(op, out, arg, rune) == [op |-> op, out |-> out, arg |-> arg, rune |-> rune]

Patterns == {"a", "a*", "(a)|e"}

\* syntax.Compile's program for each pattern (pc 0 is the fail instruction).
Prog(p) ==
    CASE p = "a" -> <<Inst("rune", 2, 0, 97), Inst("match", 0, 0, 0)>>
      [] p = "a*" -> <<Inst("rune", 2, 0, 97), Inst("alt", 1, 3, 0),
                       Inst("match", 0, 0, 0)>>
      [] p = "(a)|e" -> <<Inst("cap", 2, 2, 0), Inst("rune", 3, 0, 97),
                          Inst("cap", 6, 3, 0), Inst("rune", 6, 0, 233),
                          Inst("alt", 1, 4, 0), Inst("match", 0, 0, 0)>>

Start(p) == CASE p = "a" -> 1 [] p = "a*" -> 2 [] p = "(a)|e" -> 5

\* re.prog.NumCap: two offsets for the match and two for every group.
NumCap(p) == CASE p = "a" -> 2 [] p = "a*" -> 2 [] p = "(a)|e" -> 4

\* machine.add: follow empty instructions from pc, queueing each instruction
\* once; alt and capture entries stay on the queue with no thread.
RECURSIVE add(_, _, _, _, _)
addInst(P, q, i, pos, cap) ==
    CASE i.op = "alt" -> add(P, add(P, q, i.out, pos, cap), i.arg, pos, cap)
      [] i.op = "cap" ->
            add(P, q, i.out, pos,
                IF i.arg < Len(cap) THEN [cap EXCEPT ![i.arg + 1] = pos] ELSE cap)

add(P, q, pc, pos, cap) ==
    IF pc = 0 THEN q
    ELSE IF \E j \in 1..Len(q) : q[j].pc = pc THEN q
    ELSE IF P[pc].op \in {"alt", "cap"}
    THEN addInst(P, Append(q, [pc |-> pc, live |-> FALSE, cap |-> <<>>]), P[pc], pos, cap)
    ELSE Append(q, [pc |-> pc, live |-> TRUE, cap |-> cap])

\* machine.step: run every thread of runq on rune c, in priority order; the
\* first thread at a match instruction records the match and cuts the rest.
stepThread(P, d, pos, nextPos, c, acc) ==
    IF ~d.live THEN acc
    ELSE IF P[d.pc].op = "match"
    THEN [acc EXCEPT !.matched = TRUE, !.cut = TRUE,
                     !.matchcap = [d.cap EXCEPT ![2] = pos]]
    ELSE IF c = P[d.pc].rune
    THEN [acc EXCEPT !.nextq = add(P, @, P[d.pc].out, nextPos, d.cap)]
    ELSE acc

RECURSIVE stepFrom(_, _, _, _, _, _, _)
stepFrom(P, runq, j, pos, nextPos, c, acc) ==
    IF j > Len(runq) \/ acc.cut THEN acc
    ELSE stepFrom(P, runq, j + 1, pos, nextPos, c,
                  stepThread(P, runq[j], pos, nextPos, c, acc))

step(P, runq, j, pos, nextPos, c, acc) ==
    stepFrom(P, runq, j, pos, nextPos, c,
             [nextq |-> acc.nextq, matched |-> acc.matched,
              matchcap |-> acc.matchcap, cut |-> FALSE])

\* The reader the engine was handed: the Reger ("reger"), the wrapped source
\* itself ("raw"), or a whole string ("string", regexp's inputString).
ReaderReadRune(kind, w) ==
    IF kind = "reger" THEN ReadRune(w) ELSE SrcReadRune(w)

\* inputReader.step after its call rr of ReadRune.
inputRead(st, rr) ==
    IF rr.err # "nil"
    THEN [st |-> [st EXCEPT !.w = rr.w, !.atEOT = TRUE], r |-> endOfText, width |-> 0]
    ELSE [st |-> [st EXCEPT !.w = rr.w, !.pos = @ + rr.size], r |-> rr.r,
          width |-> rr.size]

\* inputString.step with the rune d decoded at pos.
stringRead(st, d) == [st |-> st, r |-> d.r, width |-> d.size]

\* inputReader.step / inputString.step
inputStep(st, pos) ==
    IF st.kind = "string"
    THEN IF pos < Len(input)
         THEN stringRead(st, DecodeRune(input, pos))
         ELSE [st |-> st, r |-> endOfText, width |-> 0]
    ELSE IF ~st.atEOT /\ pos # st.pos
    THEN [st |-> st, r |-> endOfText, width |-> 0]
    ELSE inputRead(st, ReaderReadRune(st.kind, st.w))

\* m.matchcap[0] = pos, before the start thread is added.
startCap(m) == IF m.matched THEN m.matchcap ELSE [m.matchcap EXCEPT ![1] = m.pos]

\* The queue machine.step runs: with the start thread while nothing matched.
startQ(P, start, m) ==
    IF m.matched THEN m.runq ELSE add(P, m.runq, start, m.pos, startCap(m))

\* The look-ahead read at the end of a pass of the loop.
lookahead(m) ==
    IF m.r1 # endOfText
    THEN inputStep(m.st, m.pos + m.width + m.width1)
    ELSE [st |-> m.st, r |-> m.r1, width |-> m.width1]

\* The for loop of machine.match: one pass is startQ, step, and unless the
\* rune had no width, the advance to the next rune and its look-ahead.
RECURSIVE matchLoop(_, _, _)
matchAdvance(P, start, m, s, nx) ==
    matchLoop(P, start,
        [st |-> nx.st, runq |-> s.nextq, pos |-> m.pos + m.width, r |-> m.r1,
         width |-> m.width1, r1 |-> nx.r, width1 |-> nx.width,
         matched |-> s.matched, matchcap |-> s.matchcap])

matchStepped(P, start, m, s) ==
    IF m.width = 0
    THEN [m EXCEPT !.matched = s.matched, !.matchcap = s.matchcap]
    ELSE matchAdvance(P, start, m, s, lookahead(m))

matchLoop(P, start, m) ==
    IF Len(m.runq) = 0 /\ m.matched THEN m
    ELSE matchStepped(P, start, m,
            step(P, startQ(P, start, m), 1, m.pos, m.pos + m.width, m.r,
                 [nextq |-> <<>>, matched |-> m.matched, matchcap |-> startCap(m)]))

\* machine.match(i, pos): read the first rune a and the look-ahead b, then loop.
matchBegin(p, pos, ncap, a, b) ==
    matchLoop(Prog(p), Start(p),
        [st |-> b.st, runq |-> <<>>, pos |-> pos, r |-> a.r, width |-> a.width,
         r1 |-> b.r, width1 |-> b.width, matched |-> FALSE,
         matchcap |-> [k \in 1..ncap |-> -1]])

matchFirst(p, pos, ncap, a) ==
    matchBegin(p, pos, ncap, a,
        IF a.r # endOfText
        THEN inputStep(a.st, pos + a.width)
        ELSE [st |-> a.st, r |-> endOfText, width |-> 0])

match(p, st0, pos, ncap) == matchFirst(p, pos, ncap, inputStep(st0, pos))

\* What re.doExecute returns for the machine m: the reader as the engine left
\* it, and a copy of the match's offsets (append(dstCap, m.matchcap...)), or
\* <<>> for nil.
executed(m) ==
    [w |-> m.st.w,
     idxs |-> IF m.matched THEN [k \in 1..Len(m.matchcap) |-> m.matchcap[k]] ELSE <<>>]

\* re.doExecute over a reader
doExecute(p, kind, w, pos, ncap) ==
    executed(match(p, [kind |-> kind, w |-> w, pos |-> 0, atEOT |-> FALSE], pos, ncap))

\* re.FindReaderIndex(r)
FindReaderIndex(p, kind, w) == doExecute(p, kind, w, 0, 2)

\* re.FindReaderSubmatchIndex(r)
FindReaderSubmatchIndex(p, kind, w) == doExecute(p, kind, w, 0, NumCap(p))

\* ------------------------------------------------- values a call returns
\* A Go slice, string or list a call returns: nil, a value, or no return at
\* all because the call panicked.
Nil == [k |-> "nil", v |-> <<>>]
Val(v) == [k |-> "val", v |-> v]
Panic == [k |-> "panic", v |-> <<>>]

\* r.buf[lo:hi]: a run-time panic when the bounds are out of range, nil when
\* the buffer never had a backing array.
SliceBuf(w, lo, hi) ==
    IF lo < 0 \/ hi < lo \/ hi > Len(w.buf) THEN Panic
    ELSE IF ~w.alloc THEN Nil
    ELSE Val(SubSeq(w.buf, lo + 1, hi))

\* r.buf = r.buf[:0]
Truncate(w) == [w EXCEPT !.buf = <<>>]

\* A call's effect on the Reger and the value it returns.
Ret(w, ret) == [w |-> w, ret |-> ret]

\* ------------------------------------------------ single-match operations
\* The engine's answer to a single-match operation, noted (w.raw).
Answered(e) == [e.w EXCEPT !.raw = e.idxs]

\* A FindReader that slices the buffer without the check for idxs == nil.
FindReaderGotUnchecked(e) ==
    Ret(e.w, IF e.idxs = <<>> THEN Panic ELSE SliceBuf(e.w, e.idxs[1], e.idxs[2]))

\* FindReader after idxs := re.FindReaderIndex(r).
FindReaderGot(e) ==
    IF e.idxs = <<>> THEN Ret(Answered(e), Nil)
    ELSE Ret(Answered(e), SliceBuf(e.w, e.idxs[1], e.idxs[2]))

\* func (r *Reger) FindReader(re *regexp.Regexp) []byte
FindReader(w) == FindReaderGot(FindReaderIndex(re, "reger", Truncate(w)))

\* FindReaderString after b := r.FindReader(re).
FindReaderStringGot(b) ==
    Ret(b.w, IF b.ret.k = "panic" THEN Panic
             ELSE IF b.ret.k = "nil" THEN Val(<<>>)
             ELSE Val(b.ret.v))

\* func (r *Reger) FindReaderString(re *regexp.Regexp) string
FindReaderString(w) == FindReaderStringGot(FindReader(w))

\* The slices bs of the pairs of one offset list as the list returned: no
\* return when slicing one of them panicked.
Sliced(bs) == IF \E g \in 1..Len(bs) : bs[g].k = "panic" THEN Panic ELSE Val(bs)

\* The loop of FindReaderSubmatch / FindReaderAllSubmatch over one offset
\* list: out = append(out, r.buf[idxpair[0]:idxpair[1]]) for every pair.
SlicePairs(w, idxs) ==
    Sliced([g \in 1..(Len(idxs) \div 2) |-> SliceBuf(w, idxs[2 * g - 1], idxs[2 * g])])

\* FindReaderSubmatch after idxs := re.FindReaderSubmatchIndex(r).
FindReaderSubmatchGot(e) ==
    IF e.idxs = <<>> THEN Ret(Answered(e), Nil)
    ELSE Ret(Answered(e), SlicePairs(e.w, e.idxs))

\* func (r *Reger) FindReaderSubmatch(re *regexp.Regexp) [][]byte
FindReaderSubmatch(w) ==
    FindReaderSubmatchGot(FindReaderSubmatchIndex(re, "reger", Truncate(w)))

\* The strings of a list of slices: "" for a nil slice.
Strings(bs) == [i \in 1..Len(bs) |-> IF bs[i].k = "nil" THEN <<>> ELSE bs[i].v]

\* FindReaderStringSubmatch after bs := r.FindReaderSubmatch(re).
FindReaderStringSubmatchGot(bs) ==
    Ret(bs.w, IF bs.ret.k = "val" THEN Val(Strings(bs.ret.v)) ELSE bs.ret)

\* func (r *Reger) FindReaderStringSubmatch(re *regexp.Regexp) []string
FindReaderStringSubmatch(w) == FindReaderStringSubmatchGot(FindReaderSubmatch(w))

\* ------------------------------------------------------- find-all loops
\* A list under construction as the value returned: nil while nothing was
\* appended.
ListOf(out) == IF out = <<>> THEN Nil ELSE Val(out)

\* A loop that appends the engine's offsets as they are, without the shift.
ShiftForgotten(idxs, n) == idxs

\* idxs[i] += n for every i
Shift(idxs, n) == [i \in 1..Len(idxs) |-> idxs[i] + n]

\* Where in the source the engine's match e lies, the engine having started
\* at source offset w.off.
Span(w, e) == <<w.off + e.idxs[1], w.off + e.idxs[2]>>

\* FindReaderAll after idxs := r.FindReaderAllIndex(re).
FindReaderAll(w, idxs) ==
    IF idxs = <<>> THEN Nil
    ELSE Sliced([i \in 1..Len(idxs) |-> SliceBuf(w, idxs[i][1], idxs[i][2])])

\* The lists bs of slices, one per match, as the list returned.
SlicedAll(bs) ==
    IF \E i \in 1..Len(bs) : bs[i].k = "panic" THEN Panic
    ELSE Val([i \in 1..Len(bs) |-> bs[i].v])

\* FindReaderAllSubmatch after idxs := r.FindReaderAllSubmatchIndex(re).
FindReaderAllSubmatch(w, idxs) ==
    IF idxs = <<>> THEN Nil
    ELSE SlicedAll([i \in 1..Len(idxs) |-> SlicePairs(w, idxs[i])])

\* What the operation that entered the index loop returns once the loop
\* ended with the list w.out.
AllIndexReturn(w) ==
    [w EXCEPT !.pc = "returned",
              !.res = CASE w.op = "FindReaderAll" -> FindReaderAll(w, w.out)
                        [] w.op = "FindReaderAllSubmatch" -> FindReaderAllSubmatch(w, w.out)
                        [] OTHER -> ListOf(w.out)]

\* One pass of the loop of FindReaderAllIndex / FindReaderAllSubmatchIndex
\* after idxs := re.FindReader[Submatch]Index(r), prevlen being len(r.buf)
\* before it: break and return, or shift and append.
AllIndexGot(w, prevlen, e) ==
    IF e.idxs = <<>> THEN AllIndexReturn(e.w)
    ELSE [e.w EXCEPT !.out = Append(@, Shift(e.idxs, prevlen)),
                     !.spans = Append(@, Span(w, e)),
                     !.raws = Append(@, e.idxs)]

\* func (r *Reger) FindReaderAllIndex(re *regexp.Regexp) [][]int and
\* func (r *Reger) FindReaderAllSubmatchIndex: one pass of the loop.
FindReaderAllIndex(w) ==
    AllIndexGot(w, Len(w.buf),
        IF w.op \in {"FindReaderAllSubmatchIndex", "FindReaderAllSubmatch"}
        THEN FindReaderSubmatchIndex(re, "reger", w)
        ELSE FindReaderIndex(re, "reger", w))

\* One pass of the loop of FindReaderAllString (ss[0] is kept) or of
\* FindReaderAllStringSubmatch (ss is kept) after ss := r.FindReaderStringSubmatch(re).
AllStringGot(w, ss) ==
    IF ss.ret.k = "nil" THEN [ss.w EXCEPT !.pc = "returned", !.res = ListOf(w.out)]
    ELSE IF ss.ret.k = "panic" THEN [ss.w EXCEPT !.pc = "returned", !.res = Panic]
    ELSE [ss.w EXCEPT !.out = Append(@, IF w.op = "FindReaderAllString"
                                        THEN ss.ret.v[1] ELSE ss.ret.v)]

\* func (r *Reger) FindReaderAllString / FindReaderAllStringSubmatch: one
\* pass of the loop.
FindReaderAllString(w) == AllStringGot(w, FindReaderStringSubmatch(w))

\* One pass of the loop of FindRuneReaderAllIndex / FindRuneReaderAllSubmatchIndex
\* after idxs := re.FindReader[Submatch]Index(r), prevlen being curlen before it.
RuneAllIndexGot(w, prevlen, e) ==
    IF e.idxs = <<>> THEN [e.w EXCEPT !.pc = "returned", !.res = ListOf(w.out)]
    ELSE [e.w EXCEPT !.curlen = @ + e.idxs[2],
                     !.out = Append(@, Shift(e.idxs, prevlen)),
                     !.spans = Append(@, Span(w, e)),
                     !.raws = Append(@, e.idxs)]

\* func FindRuneReaderAllIndex / FindRuneReaderAllSubmatchIndex over the
\* source itself: one pass of the loop.
FindRuneReaderAllIndex(w) ==
    RuneAllIndexGot(w, w.curlen,
        IF w.op = "FindRuneReaderAllSubmatchIndex"
        THEN FindReaderSubmatchIndex(re, "raw", w)
        ELSE FindReaderIndex(re, "raw", w))

\* ------------------------------------------------------------ the caller
\* func NewReger(r io.RuneReader) *Reger, over a source that fails with
\* `tail` once its bytes are used up; with the caller's view of the call in
\* progress (pc, op, out, curlen) and of the last value returned (res), and
\* with what an observer of the calls has noted (pulled, srcerr, start, spans,
\* seen, raw, raws, grew).
NewReger(tail) ==
    [tail |-> tail, off |-> 0, buf |-> <<>>, alloc |-> FALSE,
     pulled |-> <<>>, srcerr |-> "nil", start |-> 0, spans |-> <<>>, seen |-> <<>>,
     raw |-> <<>>, raws |-> <<>>, grew |-> 0,
     pc |-> "idle", op |-> "none", res |-> Nil, out |-> <<>>, curlen |-> 0]

Init ==
    /\ input \in Inputs
    /\ re \in Patterns
    /\ x = NewReger("EOF")
    /\ y = NewReger("ERR")

\* The caller makes the same call on both Regers.
Both(F(_)) == x' = F(x) /\ y' = F(y) /\ UNCHANGED <<input, re>>

Idle == x.pc = "idle"

\* The caller enters operation op.
Enter(w, op) == [w EXCEPT !.op = op, !.srcerr = "nil"]

\* The caller calls ResetBuffer or a single-match operation or an index loop
\* of the Reger, which all start with a reset: what the Reger pulled so far
\* lies before the most recent reset.
ResetPoint(w) == [w EXCEPT !.pulled = <<>>]

\* The call returned n.ret.
Return(n) == [n.w EXCEPT !.pc = "returned", !.res = n.ret]

ReadRuneReturned(rr) ==
    [rr.w EXCEPT !.pc = "returned", !.op = "ReadRune",
                 !.res = Val(<<rr.r, rr.size, rr.err>>)]

\* By how many bytes the call that took the Reger from w to n made Bytes()
\* longer, noted (n.grew).
Grown(w, n) == [n EXCEPT !.grew = Len(Bytes(n)) - Len(Bytes(w))]

CalledReadRune(w) == Grown(w, ReadRuneReturned(ReadRune(w)))

CalledResetBuffer(w) ==
    [ResetBuffer(ResetPoint(Enter(w, "ResetBuffer"))) EXCEPT !.pc = "returned", !.res = Nil]

CalledFindReader(w) == Return(FindReader(ResetPoint(Enter(w, "FindReader"))))

CalledFindReaderString(w) ==
    Return(FindReaderString(ResetPoint(Enter(w, "FindReaderString"))))

CalledFindReaderSubmatch(w) ==
    Return(FindReaderSubmatch(ResetPoint(Enter(w, "FindReaderSubmatch"))))

CalledFindReaderStringSubmatch(w) ==
    Return(FindReaderStringSubmatch(
               ResetPoint(Enter(w, "FindReaderStringSubmatch"))))

\* Entering a find-all operation: var out, and for the index loops of the
\* Reger the reset r.buf = r.buf[:0] before the loop.
EnterLoop(w, op, pc) ==
    [Enter(w, op) EXCEPT !.pc = pc, !.out = <<>>, !.spans = <<>>, !.raws = <<>>,
                         !.curlen = 0,
                         !.start = w.off]

EnterAllIndex(w, op) == Truncate(ResetPoint(EnterLoop(w, op, "FindReaderAllIndex")))

CallReadRune == Idle /\ Both(CalledReadRune)
CallResetBuffer == Idle /\ Both(CalledResetBuffer)
CallFindReader == Idle /\ Both(CalledFindReader)
CallFindReaderString == Idle /\ Both(CalledFindReaderString)
CallFindReaderSubmatch == Idle /\ Both(CalledFindReaderSubmatch)
CallFindReaderStringSubmatch == Idle /\ Both(CalledFindReaderStringSubmatch)

CallFindReaderAllIndex ==
    Idle /\ \E op \in {"FindReaderAllIndex", "FindReaderAll",
                       "FindReaderAllSubmatchIndex", "FindReaderAllSubmatch"} :
                Both(LAMBDA w : EnterAllIndex(w, op))

CallFindReaderAllString ==
    Idle /\ \E op \in {"FindReaderAllString", "FindReaderAllStringSubmatch"} :
                Both(LAMBDA w : EnterLoop(w, op, "FindReaderAllString"))

CallFindRuneReaderAllIndex ==
    Idle /\ \E op \in {"FindRuneReaderAllIndex", "FindRuneReaderAllSubmatchIndex"} :
                Both(LAMBDA w : EnterLoop(w, op, "FindRuneReaderAllIndex"))

\* The caller has used the value returned and is free to make the next call.
Continued(w) ==
    [w EXCEPT !.pc = "idle", !.op = "none", !.res = Nil, !.out = <<>>,
              !.spans = <<>>, !.curlen = 0, !.start = 0, !.srcerr = "nil",
              !.raw = <<>>, !.raws = <<>>, !.grew = 0]

Continue == x.pc = "returned" /\ Both(Continued)

\* One pass of the loop in progress (the model stops a loop that has built
\* MaxOut entries).
LoopFindReaderAllIndex ==
    /\ x.pc = "FindReaderAllIndex" /\ Len(x.out) < MaxOut
    /\ Both(FindReaderAllIndex)

LoopFindReaderAllString ==
    /\ x.pc = "FindReaderAllString" /\ Len(x.out) < MaxOut
    /\ Both(LAMBDA w : FindReaderAllString(ResetPoint(w)))

LoopFindRuneReaderAllIndex ==
    /\ x.pc = "FindRuneReaderAllIndex" /\ Len(x.out) < MaxOut
    /\ Both(FindRuneReaderAllIndex)

Next ==
    \/ CallReadRune
    \/ CallResetBuffer
    \/ CallFindReader
    \/ CallFindReaderString
    \/ CallFindReaderSubmatch
    \/ CallFindReaderStringSubmatch
    \/ CallFindReaderAllIndex
    \/ CallFindReaderAllString
    \/ CallFindRuneReaderAllIndex
    \/ LoopFindReaderAllIndex
    \/ LoopFindReaderAllString
    \/ LoopFindRuneReaderAllIndex
    \/ Continue

Spec == Init /\ [][Next]_vars

\* ------------------------------------------- two find-all loops side by side
\* Longest input, in bytes, of the side-by-side runs.
MaxLenPair == 6

InputsPair == UNION {[1..n -> InputBytes] : n \in 0..MaxLenPair}

\* Two sources hold the same bytes and end with io.EOF: x is a Reger over the
\* first, y is the second, handed to the standalone functions, or the Reger
\* over the second.
InitPair ==
    /\ input \in InputsPair
    /\ re \in Patterns
    /\ x = NewReger("EOF")
    /\ y = NewReger("EOF")

\* The caller calls r.FindReaderAllIndex(re) and FindRuneReaderAllIndex(re, r2),
\* or the two submatch variants, or r.FindReaderAll(re) and
\* r2.FindReaderAllString(re).
PairCall ==
    /\ x.pc = "idle" /\ y.pc = "idle"
    /\ \E ops \in {<<"FindReaderAllIndex", "FindRuneReaderAllIndex">>,
                    <<"FindReaderAllSubmatchIndex", "FindRuneReaderAllSubmatchIndex">>,
                    <<"FindReaderAll", "FindReaderAllString">>} :
          /\ x' = EnterAllIndex(x, ops[1])
          /\ y' = EnterLoop(y, ops[2], IF ops[2] = "FindReaderAllString"
                                        THEN "FindReaderAllString"
                                        ELSE "FindRuneReaderAllIndex")
    /\ UNCHANGED <<input, re>>

InLoop(w) ==
    /\ w.pc \in {"FindReaderAllIndex", "FindRuneReaderAllIndex", "FindReaderAllString"}
    /\ Len(w.out) < MaxOut

\* One pass of the loop w is in.
PairPass(w) ==
    CASE w.pc = "FindReaderAllIndex" -> FindReaderAllIndex(w)
      [] w.pc = "FindRuneReaderAllIndex" -> FindRuneReaderAllIndex(w)
      [] w.pc = "FindReaderAllString" -> FindReaderAllString(ResetPoint(w))

\* Each of the two loops still running makes one pass.
PairLoop ==
    /\ InLoop(x) \/ InLoop(y)
    /\ x' = IF InLoop(x) THEN PairPass(x) ELSE x
    /\ y' = IF InLoop(y) THEN PairPass(y) ELSE y
    /\ UNCHANGED <<input, re>>

NextPair == PairCall \/ PairLoop

SpecPair == InitPair /\ [][NextPair]_vars

\* ------------------------------------------- single-match calls in a row
\* The caller reads Bytes() right after a single-match call and appends it to
\* what it has read after the calls before (w.seen).
Observed(w) == [w EXCEPT !.seen = @ \o Bytes(w)]

\* A caller makes nothing but single-match calls on a Reger from NewReger, its
\* own or those of the loop of FindReaderAllString / FindReaderAllStringSubmatch,
\* and reads Bytes() after each.
ChainFindReader == Idle /\ Both(LAMBDA w : Observed(CalledFindReader(w)))
ChainFindReaderString == Idle /\ Both(LAMBDA w : Observed(CalledFindReaderString(w)))
ChainFindReaderSubmatch == Idle /\ Both(LAMBDA w : Observed(CalledFindReaderSubmatch(w)))
ChainFindReaderStringSubmatch ==
    Idle /\ Both(LAMBDA w : Observed(CalledFindReaderStringSubmatch(w)))

ChainLoopFindReaderAllString ==
    /\ x.pc = "FindReaderAllString" /\ Len(x.out) < MaxOut
    /\ Both(LAMBDA w : Observed(FindReaderAllString(ResetPoint(w))))

NextChain ==
    \/ ChainFindReader
    \/ ChainFindReaderString
    \/ ChainFindReaderSubmatch
    \/ ChainFindReaderStringSubmatch
    \/ CallFindReaderAllString
    \/ ChainLoopFindReaderAllString
    \/ Continue

SpecChain == Init /\ [][NextChain]_vars

\* ------------------------------------------- the engine on the whole input
\* The next search position of regexp's allMatches after the match idxs
\* found from pos: past the match, or one rune on after an empty match.
nextSearchPos(pos, idxs) ==
    IF idxs[2] # pos THEN idxs[2]
    ELSE IF pos < Len(input) THEN pos + DecodeRune(input, pos).size
    ELSE Len(input) + 1

\* regexp's allMatches over `input` as a string: every leftmost-first match,
\* an empty match right after the previous match being skipped.
RECURSIVE allMatches(_, _, _, _)
allMatchesGot(p, pos, prevMatchEnd, acc, idxs) ==
    IF idxs = <<>> THEN acc
    ELSE allMatches(p, nextSearchPos(pos, idxs), idxs[2],
            IF idxs[2] = pos /\ idxs[1] = prevMatchEnd THEN acc ELSE Append(acc, idxs))

allMatches(p, pos, prevMatchEnd, acc) ==
    IF pos > Len(input) THEN acc
    ELSE allMatchesGot(p, pos, prevMatchEnd, acc,
            doExecute(p, "string", [off |-> 0], pos, NumCap(p)).idxs)

\* re.FindAllStringSubmatchIndex(input, -1)
FindAllStringSubmatchIndex(p) == allMatches(p, 0, -1, <<>>)

\* re.FindAllStringIndex(input, -1)
FindAllStringIndex(p) ==
    [i \in 1..Len(FindAllStringSubmatchIndex(p)) |->
        SubSeq(FindAllStringSubmatchIndex(p)[i], 1, 2)]

\* re.FindAllString(input, -1)
FindAllString(p) ==
    [i \in 1..Len(FindAllStringIndex(p)) |->
        SubSeq(input, FindAllStringIndex(p)[i][1] + 1, FindAllStringIndex(p)[i][2])]

\* The strings of the groups of one match idxs in the input: "" for a group
\* that did not participate.
GroupStrings(idxs) ==
    [g \in 1..(Len(idxs) \div 2) |->
        IF idxs[2 * g - 1] < 0 THEN <<>>
        ELSE SubSeq(input, idxs[2 * g - 1] + 1, idxs[2 * g])]

\* re.FindAllStringSubmatch(input, -1)
FindAllStringSubmatch(p) ==
    [i \in 1..Len(FindAllStringSubmatchIndex(p)) |->
        GroupStrings(FindAllStringSubmatchIndex(p)[i])]

\* ------------------------------------------------------------ properties
Regers == {x, y}

Returned(w, op) == w.pc = "returned" /\ w.op = op

\* C1: whenever FindReaderAllString, called on a fresh Reger over the input,
\* returns, the list it returns is, element for element, the list of strings
\* of the engine's whole-string find-all over the input, matches that begin
\* right after the preceding match included.
C1_AllStringIsFindAllString ==
    \A w \in Regers :
        (Returned(w, "FindReaderAllString") /\ w.start = 0 /\ w.res.k # "panic")
            => w.res = ListOf(FindAllString(re))

\* The text the engine matched in iteration i: the bytes of the source
\* between the engine's match begin and match end.
Matched(w, i) == SubSeq(input, w.spans[i][1] + 1, w.spans[i][2])

\* C2: when FindReaderAllIndex returns, every pair (start, end) of its list
\* has 0 <= start <= end <= len(Bytes()), and Bytes()[start:end], counted
\* from the first byte read after the reset at the start of the call, is
\* the text the engine matched in that iteration.
C2_PairsSliceTheMatchedText ==
    \A w \in Regers :
        Returned(w, "FindReaderAllIndex") =>
            \A i \in 1..Len(w.out) :
                /\ 0 <= w.out[i][1]
                /\ w.out[i][1] <= w.out[i][2]
                /\ w.out[i][2] <= Len(Bytes(w))
                /\ SubSeq(Bytes(w), w.out[i][1] + 1, w.out[i][2]) = Matched(w, i)

\* C3: on the same pattern and input, the standalone FindRuneReaderAllIndex
\* (y) returns the same list of pairs as Reger.FindReaderAllIndex (x), and
\* FindRuneReaderAllSubmatchIndex the same lists as
\* Reger.FindReaderAllSubmatchIndex.
C3_StandaloneSameAsReger ==
    (x.pc = "returned" /\ y.pc = "returned"
        /\ x.op \in {"FindReaderAllIndex", "FindReaderAllSubmatchIndex"}) => x.res = y.res

\* The number of runes of b[off:].
RECURSIVE RuneCount(_, _)
RuneCount(b, off) ==
    IF off >= Len(b) THEN 0 ELSE 1 + RuneCount(b, off + DecodeRune(b, off).size)

FindAllOps ==
    {"FindReaderAllIndex", "FindReaderAllSubmatchIndex", "FindReaderAllString",
     "FindReaderAllStringSubmatch", "FindRuneReaderAllIndex",
     "FindRuneReaderAllSubmatchIndex"}

\* C4: a find-all loop makes forward progress in the stream on every pass
\* and stops once the stream is exhausted, a pattern that matches the empty
\* string included: it never holds more matches than one per rune of the
\* stream it was called on and one at its end.
C4_LoopStopsAtEndOfStream ==
    \A w \in Regers :
        w.op \in FindAllOps => Len(w.out) <= RuneCount(input, w.start) + 1

\* The pairs of list l are in stream order: start <= end in each, and each
\* start at or after the end of the pair before.
InStreamOrder(l) ==
    /\ \A i \in 1..Len(l) : l[i][1] <= l[i][2]
    /\ \A i \in 1..(Len(l) - 1) : l[i + 1][1] >= l[i][2]

\* C5: the list of Reger.FindReaderAllIndex (x) and the list of
\* FindRuneReaderAllIndex (y), while it is built and when it is returned, are
\* in stream order: every entry has start <= end, and every entry starts at
\* or after the end of the entry before it.
C5_EntriesInStreamOrder ==
    /\ x.op = "FindReaderAllIndex" => InStreamOrder(x.out)
    /\ y.op = "FindRuneReaderAllIndex" => InStreamOrder(y.out)

\* Both loops have returned two matches that lie apart.
C5_Witness ==
    /\ Returned(x, "FindReaderAllIndex") /\ Returned(y, "FindRuneReaderAllIndex")
    /\ x.res.k = "val" /\ Len(x.res.v) >= 2 /\ x.res.v[2][1] > x.res.v[1][2]
    /\ y.res.k = "val" /\ Len(y.res.v) >= 2

\* C6: FindReaderSubmatch and FindReaderStringSubmatch complete and return a
\* list of 1+G elements whenever the engine reports a match, a match in which
\* a capturing group did not participate included.
C6_SubmatchCompletes ==
    \A w \in Regers :
        (w.pc = "returned" /\ w.op \in {"FindReaderSubmatch", "FindReaderStringSubmatch"}
            /\ w.res.k # "nil")
            => (w.res.k = "val" /\ Len(w.res.v) = NumCap(re) \div 2)

\* The UTF-8 encoding of the runes a source over InputBytes can yield.
UTF8(r) ==
    CASE r = 97 -> <<97>>
      [] r = 233 -> <<195, 169>>
      [] r = RuneError -> <<239, 191, 189>>

RECURSIVE Encoded(_)
Encoded(rs) == IF rs = <<>> THEN <<>> ELSE UTF8(Head(rs)) \o Encoded(Tail(rs))

\* C7: in every state of a Reger, Bytes() is the concatenation, in the order
\* consumed, of the UTF-8 encodings of the characters successfully pulled
\* from the source since the most recent reset.
C7_BufferIsWhatWasPulled == \A w \in Regers : Bytes(w) = Encoded(w.pulled)

\* A find operation has pulled characters of one and of several bytes after
\* its reset, an earlier call having filled the buffer before.
C7_Witness ==
    /\ Returned(x, "FindReader")
    /\ x.off > Len(Bytes(x))
    /\ Len(x.pulled) >= 2 /\ Len(Bytes(x)) > Len(x.pulled)

\* C8: when the read of the wrapped source returned end-of-stream or an
\* error, ReadRune returns a non-nil error, and nothing was appended to the
\* buffer.
C8_ReadRuneReportsEndOfStream ==
    \A w \in Regers :
        (Returned(w, "ReadRune") /\ w.srcerr # "nil")
            => (w.res.v[3] # "nil" /\ Bytes(w) = Encoded(w.pulled))

RegerFindOps ==
    {"FindReader", "FindReaderString", "FindReaderSubmatch", "FindReaderStringSubmatch",
     "FindReaderAllIndex", "FindReaderAll", "FindReaderAllSubmatchIndex",
     "FindReaderAllSubmatch", "FindReaderAllString", "FindReaderAllStringSubmatch"}

\* C9: a find operation of a Reger whose source yields the input and then
\* fails with an I/O error (y) is at every point where the same operation is
\* on a Reger whose source yields the input and ends (x): same result
\* returned, same buffer contents, same list so far.
C9_ErrorIsEndOfStream ==
    x.op \in RegerFindOps =>
        /\ y.op = x.op /\ y.pc = x.pc
        /\ y.res = x.res
        /\ Bytes(y) = Bytes(x)
        /\ y.out = x.out

\* A find operation found a match and ran into the end of the one source and
\* into the I/O error of the other.
C9_Witness ==
    /\ Returned(x, "FindReader") /\ x.res.k = "val" /\ x.res.v # <<>>
    /\ x.srcerr = "EOF" /\ y.srcerr = "ERR"

\* The engine finds no match of re in the whole input.
NoMatch == doExecute(re, "string", [off |-> 0], 0, 2).idxs = <<>>

\* C10: on an input that holds no match of the pattern, FindReader returns
\* nil and FindReaderAllIndex returns a list with no entries, each having
\* read the source to its end and no further; the loop of FindReaderAllIndex
\* is never left running by a pass.
C10_NoMatchIsAbsent ==
    \A w \in Regers :
        (w.op \in {"FindReader", "FindReaderAllIndex"} /\ NoMatch) =>
            /\ Returned(w, "FindReader") => (w.res = Nil /\ w.off = Len(input))
            /\ Returned(w, "FindReaderAllIndex") => (w.res = Nil /\ w.off = Len(input))
            /\ w.pc = "FindReaderAllIndex" => (w.out = <<>> /\ w.off = w.start)

\* FindReaderAllIndex has returned from an input of three runes without a match.
C10_Witness ==
    /\ Returned(x, "FindReaderAllIndex")
    /\ NoMatch /\ x.start = 0 /\ RuneCount(input, 0) = 3 /\ x.off = Len(input)

\* C11: whenever FindReaderAllStringSubmatch, called on a fresh Reger over the
\* input, returns, it returns one entry per match of the pattern in the input, in stream order,
\* each of 1+G elements: the whole matched text, then the text each group
\* captured in that match.
C11_AllStringSubmatchIsFindAll ==
    \A w \in Regers :
        (Returned(w, "FindReaderAllStringSubmatch") /\ w.start = 0 /\ w.res.k # "panic")
            => w.res = ListOf(FindAllStringSubmatch(re))

\* C12: the buffer contents read after each of the single-match calls made in
\* a row on a Reger from NewReger, put together in call order, are a prefix
\* of the input, and the wrapped reader stands right behind that prefix.
C12_SeenIsPrefixOfInput ==
    \A w \in Regers :
        /\ Len(w.seen) <= Len(input)
        /\ w.seen = SubSeq(input, 1, Len(w.seen))
        /\ w.off = Len(w.seen)

\* C13: FindReaderString and FindReaderStringSubmatch return an absent value
\* when the engine finds no match, a value the caller can tell from the one
\* returned for a match, a match of the empty string included: they return
\* the absent value exactly when the engine found no match.
C13_NoMatchIsNotEmptyMatch ==
    \A w \in Regers :
        (w.pc = "returned" /\ w.op \in {"FindReaderString", "FindReaderStringSubmatch"})
            => (w.raw = <<>> <=> w.res.k = "nil")

\* The strings of the value FindReaderAll returned: string(b) of each slice.
StringsOf(ret) == IF ret.k = "val" THEN Val(Strings(ret.v)) ELSE ret

\* C14: on the same pattern and input, each on a fresh Reger,
\* FindReaderAllString (y) returns the strings of the slices that
\* FindReaderAll (x) returns, in the same order and number.
C14_AllStringSameAsAll ==
    (Returned(x, "FindReaderAll") /\ y.pc = "returned") => y.res = StringsOf(x.res)

\* Where the engine's offsets raw hold -1, a group that did not participate,
\* the entry holds -1 as well.
AbsentKept(entry, raw) == \A k \in 1..Len(raw) : raw[k] = -1 => entry[k] = -1

\* C15: in every entry of the list of Reger.FindReaderAllSubmatchIndex (x)
\* and of FindRuneReaderAllSubmatchIndex (y), the first and every later one,
\* a capturing group that did not participate in that match is reported as
\* absent, both offsets -1.
C15_AbsentGroupStaysAbsent ==
    /\ x.op = "FindReaderAllSubmatchIndex"
            => \A i \in 1..Len(x.out) : AbsentKept(x.out[i], x.raws[i])
    /\ y.op = "FindRuneReaderAllSubmatchIndex"
            => \A i \in 1..Len(y.out) : AbsentKept(y.out[i], y.raws[i])

\* C16: the size a successful ReadRune returns is the number of bytes it
\* appended to the buffer for that character, whatever character and size
\* the wrapped source yielded.
C16_SizeIsBytesAppended ==
    \A w \in Regers :
        (Returned(w, "ReadRune") /\ w.srcerr = "nil") => w.res.v[2] = w.grew
====
